---- MODULE Spec2Model ----
(***************************************************************************)
(* Model of file-bom-remover (src/main.py): remove_bom, process_file,      *)
(* process_directory and main, over a small file system.                   *)
(*                                                                         *)
(* Spec      : one run of main() on a directory tree.                      *)
(* FairSpec  : Spec with weak fairness of Next (the program is a single    *)
(*             synchronous thread that always takes its next step).        *)
(* StripSpec : process_file/remove_bom applied up to MaxCalls times to one *)
(*             file, with arbitrary content and encoding identifier.       *)
(*                                                                         *)
(* An I/O step (open, read, write/close, listdir) either succeeds or       *)
(* raises; at most MaxFaults steps raise in one run.  remove_bom catches   *)
(* every Exception itself, so the except clause of process_file (lines     *)
(* 68-69) is never entered and has no action.  The --verbose flag only     *)
(* filters what the logger shows; log keeps every record with its level.   *)
(***************************************************************************)
EXTENDS Integers, Sequences, FiniteSets, TLC

\* ------------------------------------------------------------------ bounds
MaxLen == 4
MaxCalls == 2
MaxFaults == 2

\* ---------------------------------------------------------------- python
\* Python's None where a str is expected, and where bytes are expected.
None == "<None>"
NoneBytes == <<-1>>

\* bytes.startswith(prefix)
StartsWithFirstByteOnly(s, p) == Len(s) >= 1 /\ s[1] = p[1]
StartsWith(s, p) == Len(s) >= Len(p) /\ SubSeq(s, 1, Len(p)) = p

\* content[n:]
SliceOffByOne(s, n) == SubSeq(s, n, Len(s))
SliceWhole(s, n) == s
Slice(s, n) == SubSeq(s, n + 1, Len(s))

\* s[:k]
Prefix(s, k) == SubSeq(s, 1, k)

\* ------------------------------------------------------- BOM signatures
BOM_UTF8 == <<239, 187, 191>>
BOM_UTF16_LE == <<255, 254>>
BOM_UTF16_BE == <<254, 255>>

Supported == {"utf-8", "utf-16le", "utf-16be"}

BOM_ENCODINGS ==
    [e \in Supported |->
        CASE e = "utf-8" -> BOM_UTF8
          [] e = "utf-16le" -> BOM_UTF16_LE
          [] e = "utf-16be" -> BOM_UTF16_BE]

\* BOM_ENCODINGS.get(encoding)
Get(e) == IF e \in DOMAIN BOM_ENCODINGS THEN BOM_ENCODINGS[e] ELSE NoneBytes

\* Encoding identifiers a direct caller of remove_bom may pass.
Unsupported == {"UTF-8", "utf-16"}
AnyEncoding == Supported \cup Unsupported

\* ----------------------------------------------------------- file system
\* D/
\*   f1            regular file
\*   o             neither file nor directory (socket)
\*   sub/
\*     f2          regular file
\*     deep/
\*       f3        regular file
Files == {"D/f1", "D/sub/f2", "D/sub/deep/f3"}
Dirs == {"D", "D/sub", "D/sub/deep"}
Others == {"D/o"}

\* os.listdir(directory), as a set of names
Children(d) ==
    CASE d = "D" -> {"f1", "o", "sub"}
      [] d = "D/sub" -> {"f2", "deep"}
      [] d = "D/sub/deep" -> {"f3"}
      [] OTHER -> {}

\* os.path.join(directory, item)
JoinBare(d, item) == item
Join(d, item) == d \o "/" \o item

\* os.path.isfile / os.path.isdir
isfile(p) == p \in Files
isdir(p) == p \in Dirs

\* the directory a file lies in, and the directories above it up to D
Parent(f) ==
    CASE f = "D/f1" -> "D"
      [] f = "D/sub/f2" -> "D/sub"
      [] f = "D/sub/deep/f3" -> "D/sub/deep"
Ancestors(f) ==
    CASE f = "D/f1" -> {"D"}
      [] f = "D/sub/f2" -> {"D", "D/sub"}
      [] f = "D/sub/deep/f3" -> {"D", "D/sub", "D/sub/deep"}

\* Bytes the model draws file contents from: the bytes of the three
\* signatures and one byte ("H") that occurs in none of them.
ByteSample == {239, 187, 191, 255, 254, 72}

BytesUpTo(n) == UNION {[1..k -> ByteSample] : k \in 0..n}

\* every order os.listdir may report a set of names in
Orders(S) ==
    {s \in [1..Cardinality(S) -> S] : \A i, j \in 1..Cardinality(S) : s[i] = s[j] => i = j}

VARIABLES
    fs,          \* path of a regular file -> its bytes on disk
    orig,        \* fs at the start of the run
    args,        \* parsed command line: file, directory, encoding, recursive
    pc,          \* position of the single thread of control
    stack,       \* active process_directory calls, innermost first
    file_path,   \* remove_bom: argument
    encoding,    \* remove_bom: argument
    content,     \* remove_bom: bytes read
    new_content, \* remove_bom: bytes to write back
    result,      \* process_file: value returned by remove_bom
    handles,     \* open file objects, as <<path, mode>>
    log,         \* records emitted through logging, oldest first
    faults,      \* number of I/O failures injected so far
    before,      \* bytes of file_path when the running remove_bom call began
    wopened,     \* the running remove_bom call opened file_path for writing
    stage,       \* step of the running remove_bom call that raised, or ""
    calls,       \* file -> records of the completed process_file calls
    listed,      \* directories whose listing succeeded
    listfail     \* directories whose listing raised

vars == <<fs, orig, args, pc, stack, file_path, encoding, content, new_content,
          result, handles, log, faults, before, wopened, stage, calls, listed,
          listfail>>

walk == <<stack, listed, listfail>>
locals == <<file_path, encoding, content, new_content>>
hist == <<before, wopened, stage>>

Msg(level, text, path) == [level |-> level, text |-> text, path |-> path]

\* ------------------------------------------------------------ file objects
\* open(path, 'wb') truncates the file
KeepOnOpen(old) == old
TruncateOnOpen(old) == <<>>

\* the file after the first k bytes of data were written at offset 0
WriteAt0(old, data, k) == Prefix(data, k) \o SubSeq(old, k + 1, Len(old))

\* leaving a with-block closes the file object
LeakHandle(hs, h) == hs
CloseHandle(hs, h) == hs \ {h}

\* an I/O step may raise while the fault budget lasts
MayFail == faults < MaxFaults

\* ------------------------------------------------------------- remove_bom
\* process_file(path, enc) entered; it calls remove_bom(path, enc) at once
CallProcessFile(path, enc) ==
    /\ file_path' = path
    /\ encoding' = enc
    /\ content' = <<>>
    /\ new_content' = <<>>
    /\ before' = fs[path]
    /\ wopened' = FALSE
    /\ stage' = ""
    /\ pc' = "rb_open"

\* except Exception as e: logging.error(...); return None
Raise(stg) ==
    /\ faults' = faults + 1
    /\ stage' = stg
    /\ log' = Append(log, Msg("ERROR", "Error processing", file_path))
    /\ result' = None
    /\ pc' = "pf_ret"

OpenRead ==
    /\ pc = "rb_open"
    /\ handles' = handles \cup {<<file_path, "rb">>}
    /\ pc' = "rb_read"
    /\ UNCHANGED <<fs, orig, args, walk, locals, result, log, faults, hist, calls>>

OpenReadFail ==
    /\ pc = "rb_open"
    /\ MayFail
    /\ Raise("open_r")
    /\ UNCHANGED <<fs, orig, args, walk, locals, handles, before, wopened, calls>>

Read ==
    /\ pc = "rb_read"
    /\ content' = fs[file_path]
    /\ handles' = CloseHandle(handles, <<file_path, "rb">>)
    /\ pc' = "inspect"
    /\ UNCHANGED <<fs, orig, args, walk, file_path, encoding, new_content,
                   result, log, faults, hist, calls>>

ReadFail ==
    /\ pc = "rb_read"
    /\ MayFail
    /\ handles' = CloseHandle(handles, <<file_path, "rb">>)
    /\ Raise("read")
    /\ UNCHANGED <<fs, orig, args, walk, locals, before, wopened, calls>>

\* bom = BOM_ENCODINGS.get(encoding) and the three branches that follow it
Inspect ==
    /\ pc = "inspect"
    /\ LET bom == Get(encoding) IN
         IF bom = NoneBytes
           THEN /\ log' = Append(log, Msg("ERROR", "Unsupported encoding", encoding))
                /\ result' = None
                /\ pc' = "pf_ret"
                /\ UNCHANGED new_content
           ELSE IF StartsWith(content, bom)
             THEN /\ log' = Append(log, Msg("INFO", "BOM found", file_path))
                  /\ new_content' = Slice(content, Len(bom))
                  /\ pc' = "wb_open"
                  /\ UNCHANGED result
             ELSE /\ log' = Append(log, Msg("DEBUG", "No BOM found", file_path))
                  /\ result' = "False"
                  /\ pc' = "pf_ret"
                  /\ UNCHANGED new_content
    /\ UNCHANGED <<fs, orig, args, walk, file_path, encoding, content, handles,
                   faults, hist, calls>>

OpenWrite ==
    /\ pc = "wb_open"
    /\ handles' = handles \cup {<<file_path, "wb">>}
    /\ fs' = [fs EXCEPT ![file_path] = TruncateOnOpen(@)]
    /\ wopened' = TRUE
    /\ pc' = "wb_write"
    /\ UNCHANGED <<orig, args, walk, locals, result, log, faults, before, stage,
                   calls>>

OpenWriteFail ==
    /\ pc = "wb_open"
    /\ MayFail
    /\ Raise("open_w")
    /\ UNCHANGED <<fs, orig, args, walk, locals, handles, before, wopened, calls>>

Write ==
    /\ pc = "wb_write"
    /\ fs' = [fs EXCEPT ![file_path] = WriteAt0(@, new_content, Len(new_content))]
    /\ handles' = CloseHandle(handles, <<file_path, "wb">>)
    /\ log' = Append(log, Msg("INFO", "BOM removed", file_path))
    /\ result' = "True"
    /\ pc' = "pf_ret"
    /\ UNCHANGED <<orig, args, walk, locals, faults, hist, calls>>

\* the write, the flush or the close raises after k bytes reached the disk
WriteFail ==
    /\ pc = "wb_write"
    /\ MayFail
    /\ \E k \in 0..Len(new_content) :
          fs' = [fs EXCEPT ![file_path] = WriteAt0(@, new_content, k)]
    /\ handles' = CloseHandle(handles, <<file_path, "wb">>)
    /\ Raise("write")
    /\ UNCHANGED <<orig, args, walk, locals, before, wopened, calls>>

\* ----------------------------------------------------------- process_file
CallRecord ==
    [encoding |-> encoding, before |-> before, after |-> fs[file_path],
     ret |-> result, wopened |-> wopened, stage |-> stage,
     said |-> log[Len(log)].text]

\* remove_bom has returned into process_file, which then returns
ProcessFileReturn ==
    /\ pc = "pf_ret"
    /\ log' = IF result = None
                THEN Append(log, Msg("ERROR", "Failed to process", file_path))
                ELSE log
    /\ calls' = [calls EXCEPT ![file_path] = Append(@, CallRecord)]
    /\ file_path' = ""
    /\ encoding' = ""
    /\ content' = <<>>
    /\ new_content' = <<>>
    /\ result' = ""
    /\ before' = <<>>
    /\ wopened' = FALSE
    /\ stage' = ""
    /\ pc' = IF stack = <<>> THEN "done" ELSE "loop"
    /\ UNCHANGED <<fs, orig, args, walk, handles, faults>>

\* ------------------------------------------------ repeated direct calls
Target == "D/f1"

StripInit ==
    /\ \E b \in BytesUpTo(MaxLen) : fs = [f \in Files |-> IF f = Target THEN b ELSE <<>>]
    /\ orig = fs
    /\ \E e \in AnyEncoding :
          args = [file |-> Target, directory |-> None, encoding |-> e, recursive |-> FALSE]
    /\ pc = "done"
    /\ stack = <<>>
    /\ file_path = ""
    /\ encoding = ""
    /\ content = <<>>
    /\ new_content = <<>>
    /\ result = ""
    /\ handles = {}
    /\ log = <<>>
    /\ faults = 0
    /\ before = <<>>
    /\ wopened = FALSE
    /\ stage = ""
    /\ calls = [f \in Files |-> <<>>]
    /\ listed = {}
    /\ listfail = {}

\* the caller applies process_file to Target again
CallAgain ==
    /\ pc = "done"
    /\ Len(calls[Target]) < MaxCalls
    /\ CallProcessFile(Target, args.encoding)
    /\ UNCHANGED <<fs, orig, args, walk, result, handles, log, faults, calls>>

StripNext ==
    \/ CallAgain
    \/ OpenRead
    \/ OpenReadFail
    \/ Read
    \/ ReadFail
    \/ Inspect
    \/ OpenWrite
    \/ OpenWriteFail
    \/ Write
    \/ WriteFail
    \/ ProcessFileReturn

StripSpec == StripInit /\ [][StripNext]_vars

\* ------------------------------------------------------ process_directory
Frame(d, enc, rec) == [directory |-> d, encoding |-> enc, recursive |-> rec, items |-> <<>>]

\* elif os.path.isdir(item_path) and recursive
DescendAlways(p, rec) == isdir(p)
DescendInto(p, rec) == isdir(p) /\ rec

\* an exception caught by process_directory ends that call only
UnwindAll(stk) == <<>>
Unwind(stk) == Tail(stk)

\* the for loop moves on to the next entry of the listing
Advance(stk) == [stk EXCEPT ![1].items = Tail(@)]

item_path == Join(stack[1].directory, Head(stack[1].items))

ListDir ==
    /\ pc = "listdir"
    /\ \E order \in Orders(Children(stack[1].directory)) :
          stack' = [stack EXCEPT ![1].items = order]
    /\ listed' = listed \cup {stack[1].directory}
    /\ pc' = "loop"
    /\ UNCHANGED <<fs, orig, args, locals, result, handles, log, faults, hist,
                   calls, listfail>>

ListDirFail ==
    /\ pc = "listdir"
    /\ MayFail
    /\ faults' = faults + 1
    /\ log' = Append(log, Msg("ERROR", "Error accessing directory", stack[1].directory))
    /\ listfail' = listfail \cup {stack[1].directory}
    /\ stack' = Unwind(stack)
    /\ pc' = IF stack' = <<>> THEN "done" ELSE "loop"
    /\ UNCHANGED <<fs, orig, args, locals, result, handles, hist, calls, listed>>

VisitFile ==
    /\ pc = "loop"
    /\ stack[1].items # <<>>
    /\ isfile(item_path)
    /\ stack' = Advance(stack)
    /\ CallProcessFile(item_path, stack[1].encoding)
    /\ UNCHANGED <<fs, orig, args, result, handles, log, faults, calls, listed,
                   listfail>>

VisitDirRecurse ==
    /\ pc = "loop"
    /\ stack[1].items # <<>>
    /\ ~isfile(item_path)
    /\ DescendInto(item_path, stack[1].recursive)
    /\ stack' = <<Frame(item_path, stack[1].encoding, stack[1].recursive)>> \o Advance(stack)
    /\ pc' = "listdir"
    /\ UNCHANGED <<fs, orig, args, locals, result, handles, log, faults, hist,
                   calls, listed, listfail>>

VisitDirSkip ==
    /\ pc = "loop"
    /\ stack[1].items # <<>>
    /\ ~isfile(item_path)
    /\ ~DescendInto(item_path, stack[1].recursive)
    /\ isdir(item_path) /\ ~stack[1].recursive
    /\ log' = Append(log, Msg("INFO", "Skipping subdirectory", item_path))
    /\ stack' = Advance(stack)
    /\ UNCHANGED <<fs, orig, args, pc, locals, result, handles, faults, hist,
                   calls, listed, listfail>>

VisitOther ==
    /\ pc = "loop"
    /\ stack[1].items # <<>>
    /\ ~isfile(item_path)
    /\ ~DescendInto(item_path, stack[1].recursive)
    /\ ~(isdir(item_path) /\ ~stack[1].recursive)
    /\ stack' = Advance(stack)
    /\ UNCHANGED <<fs, orig, args, pc, locals, result, handles, log, faults,
                   hist, calls, listed, listfail>>

\* the listing is exhausted: process_directory returns
DirectoryReturn ==
    /\ pc = "loop"
    /\ stack[1].items = <<>>
    /\ stack' = Tail(stack)
    /\ pc' = IF stack' = <<>> THEN "done" ELSE "loop"
    /\ UNCHANGED <<fs, orig, args, locals, result, handles, log, faults, hist,
                   calls, listed, listfail>>

\* ------------------------------------------------------------------- main
\* truth value of a str-or-None
Truthy(s) == s # None /\ s # ""

MainFileNotFound ==
    /\ pc = "main"
    /\ Truthy(args.file)
    /\ ~isfile(args.file)
    /\ log' = Append(log, Msg("ERROR", "File not found", args.file))
    /\ pc' = "done"
    /\ UNCHANGED <<fs, orig, args, walk, locals, result, handles, faults, hist, calls>>

MainFile ==
    /\ pc = "main"
    /\ Truthy(args.file)
    /\ isfile(args.file)
    /\ CallProcessFile(args.file, args.encoding)
    /\ UNCHANGED <<fs, orig, args, walk, result, handles, log, faults, calls>>

MainDirectoryNotFound ==
    /\ pc = "main"
    /\ ~Truthy(args.file)
    /\ Truthy(args.directory)
    /\ ~isdir(args.directory)
    /\ log' = Append(log, Msg("ERROR", "Directory not found", args.directory))
    /\ pc' = "done"
    /\ UNCHANGED <<fs, orig, args, walk, locals, result, handles, faults, hist, calls>>

MainDirectory ==
    /\ pc = "main"
    /\ ~Truthy(args.file)
    /\ Truthy(args.directory)
    /\ isdir(args.directory)
    /\ stack' = <<Frame(args.directory, args.encoding, args.recursive)>>
    /\ pc' = "listdir"
    /\ UNCHANGED <<fs, orig, args, locals, result, handles, log, faults, hist,
                   calls, listed, listfail>>

\* neither branch of main is taken
MainNothing ==
    /\ pc = "main"
    /\ ~Truthy(args.file)
    /\ ~Truthy(args.directory)
    /\ pc' = "done"
    /\ UNCHANGED <<fs, orig, args, walk, locals, result, handles, log, faults,
                   hist, calls>>

\* values the command line may carry for --file / --directory
PathArgs == {"", "D", "D/f1", "D/sub", "nope"}

\* argparse: exactly one of --file / --directory, --encoding among the choices
ArgSpace ==
    {a \in [file : PathArgs \cup {None}, directory : PathArgs \cup {None},
            encoding : Supported, recursive : BOOLEAN] :
        (a.file = None) # (a.directory = None)}

\* contents of the files of the tree at the start of a run
WalkContents == {<<>>, <<72>>, <<239, 187, 191, 72>>, <<255, 254, 72>>}

Init ==
    /\ fs \in [Files -> WalkContents]
    /\ orig = fs
    /\ args \in ArgSpace
    /\ pc = "main"
    /\ stack = <<>>
    /\ file_path = ""
    /\ encoding = ""
    /\ content = <<>>
    /\ new_content = <<>>
    /\ result = ""
    /\ handles = {}
    /\ log = <<>>
    /\ faults = 0
    /\ before = <<>>
    /\ wopened = FALSE
    /\ stage = ""
    /\ calls = [f \in Files |-> <<>>]
    /\ listed = {}
    /\ listfail = {}

Next ==
    \/ MainFileNotFound
    \/ MainFile
    \/ MainDirectoryNotFound
    \/ MainDirectory
    \/ MainNothing
    \/ ListDir
    \/ ListDirFail
    \/ VisitFile
    \/ VisitDirRecurse
    \/ VisitDirSkip
    \/ VisitOther
    \/ DirectoryReturn
    \/ OpenRead
    \/ OpenReadFail
    \/ Read
    \/ ReadFail
    \/ Inspect
    \/ OpenWrite
    \/ OpenWriteFail
    \/ Write
    \/ WriteFail
    \/ ProcessFileReturn

Spec == Init /\ [][Next]_vars

FairSpec == Spec /\ WF_vars(Next)

\* ================================================================ claims
\* The signatures as the specification states them, and sequence
\* operations written out element by element.
Signature(e) ==
    CASE e = "utf-8" -> <<239, 187, 191>>
      [] e = "utf-16le" -> <<255, 254>>
      [] e = "utf-16be" -> <<254, 255>>

SignatureLen(e) == IF e = "utf-8" THEN 3 ELSE 2

HasSignature(b, e) ==
    /\ Len(b) >= Len(Signature(e))
    /\ \A i \in 1..Len(Signature(e)) : b[i] = Signature(e)[i]

Drop(b, n) == [i \in 1..(Len(b) - n) |-> b[i + n]]

LeadingPart(p, b) == Len(p) <= Len(b) /\ \A i \in 1..Len(p) : p[i] = b[i]

\* the completed calls, on any file
Completed == UNION {{calls[f][i] : i \in 1..Len(calls[f])} : f \in Files}

\* how a completed call was signalled: return value and remove_bom's last log record
Outcome(r) ==
    CASE r.ret = "True" -> "Stripped"
      [] r.ret = "False" -> "NoBOMFound"
      [] r.ret = None /\ r.said = "Unsupported encoding" -> "UnsupportedEncoding"
      [] OTHER -> "IOError"

InCall == pc \in {"rb_open", "rb_read", "inspect", "wb_open", "wb_write", "pf_ret"}

\* C1 (exact truncation): a call on a file whose bytes B start with the
\* signature of the supported encoding E, completing without I/O failure,
\* returns True and leaves exactly B[len(signature):] in the file: 3 bytes
\* fewer for utf-8, 2 fewer for the utf-16 variants, the rest unaltered.
C1_ExactTruncation ==
    \A r \in Completed :
        (r.encoding \in Supported /\ HasSignature(r.before, r.encoding) /\ r.stage = "")
        => /\ r.ret = "True"
           /\ Outcome(r) = "Stripped"
           /\ Len(r.after) = Len(r.before) - SignatureLen(r.encoding)
           /\ r.after = Drop(r.before, SignatureLen(r.encoding))

C1_Witness ==
    \E r \in Completed :
        /\ r.encoding = "utf-8"
        /\ r.before = <<239, 187, 191, 72>>
        /\ r.ret = "True"
        /\ r.after = <<72>>

\* C2 (content preservation): a call on a file whose bytes B do not start
\* with the signature of the supported encoding E (empty and short files
\* included), once B was read, returns False, never opens the file for
\* writing, and leaves the bytes equal to B at every step and at the end.
C2_ContentPreservation ==
    /\ \A r \in Completed :
          (/\ r.encoding \in Supported
           /\ ~HasSignature(r.before, r.encoding)
           /\ r.stage \notin {"open_r", "read"})
          => /\ r.ret = "False"
             /\ Outcome(r) = "NoBOMFound"
             /\ ~r.wopened
             /\ r.after = r.before
    /\ (InCall /\ encoding \in Supported /\ ~HasSignature(before, encoding))
          => /\ fs[file_path] = before
             /\ <<file_path, "wb">> \notin handles
             /\ ~wopened

C2_Witness ==
    \E r \in Completed :
        /\ r.encoding = "utf-8"
        /\ r.before = <<239, 187>>
        /\ r.ret = "False"
        /\ r.after = <<239, 187>>

\* both applications to Target are complete and none met an I/O failure
TwiceClean ==
    /\ Len(calls[Target]) = 2
    /\ calls[Target][1].encoding \in Supported
    /\ calls[Target][1].stage = ""
    /\ calls[Target][2].stage = ""

\* C3 as claimed (idempotence for every content B): the second application
\* returns False and leaves the bytes the first application left.
C3_Idempotence_AsClaimed ==
    TwiceClean
    => /\ calls[Target][2].ret = "False"
       /\ calls[Target][2].after = calls[Target][1].after

\* B[len(signature):] starts with the signature again
DoubleSignature(b, e) ==
    HasSignature(b, e) /\ HasSignature(Drop(b, SignatureLen(e)), e)

\* C3 amended: idempotence holds for every content B that does not begin
\* with two consecutive copies of the signature; when B does, the second
\* application strips the second copy and returns True.
C3_Idempotence ==
    TwiceClean
    => LET first == calls[Target][1]
           second == calls[Target][2]
       IN  IF DoubleSignature(first.before, first.encoding)
             THEN /\ second.ret = "True"
                  /\ second.after = Drop(first.before, 2 * SignatureLen(first.encoding))
             ELSE /\ second.ret = "False"
                  /\ second.after = first.after
                  /\ second.before = first.after
                  /\ first.after = IF HasSignature(first.before, first.encoding)
                                     THEN Drop(first.before, SignatureLen(first.encoding))
                                     ELSE first.before

C3_Witness ==
    /\ TwiceClean
    /\ calls[Target][1].before = <<255, 254, 72>>
    /\ calls[Target][1].encoding = "utf-16le"
    /\ calls[Target][1].ret = "True"
    /\ calls[Target][2].ret = "False"
    /\ calls[Target][2].after = <<72>>

\* C5 as claimed (unsupported encoding rejection): every call with an
\* encoding identifier outside the three supported ones is signalled as
\* UnsupportedEncoding, whatever the state of the file.
C5_UnsupportedRejected ==
    \A r \in Completed :
        r.encoding \notin {"utf-8", "utf-16le", "utf-16be"}
        => Outcome(r) = "UnsupportedEncoding"

\* C10 (error outcomes and file bytes): a call that returns None because of
\* the encoding or of a failed open/read never opened the file for writing
\* and left its bytes unchanged; a None return with changed bytes happens
\* only after a failed write-back following a signature match, and the file
\* then holds a leading part of B[len(signature):].
C10_ErrorLeavesNoGarbage ==
    \A r \in Completed :
        r.ret = None
        => /\ (r.said = "Unsupported encoding" \/ r.stage \in {"open_r", "read"})
                => (~r.wopened /\ r.after = r.before)
           /\ r.after # r.before
                => /\ r.stage = "write"
                   /\ r.wopened
                   /\ r.encoding \in Supported
                   /\ HasSignature(r.before, r.encoding)
                   /\ LeadingPart(r.after, Drop(r.before, SignatureLen(r.encoding)))

C10_Witness ==
    \E r \in Completed :
        /\ r.ret = None
        /\ r.stage = "write"
        /\ r.before = <<255, 254, 72, 72>>
        /\ r.after = <<72>>

\* ------------------------------------------------ claims about the walk
\* main was given an existing directory to walk
DirectoryMode == args.file = None /\ args.directory \in Dirs

Depth(d) == CASE d = "D" -> 1 [] d = "D/sub" -> 2 [] d = "D/sub/deep" -> 3

\* the directories from the walked one down to the one holding f
Between(f) == {d \in Ancestors(f) : Depth(d) >= Depth(args.directory)}

\* f belongs to what the walk has to cover
InScope(f) ==
    /\ args.directory \in Ancestors(f)
    /\ args.recursive \/ Parent(f) = args.directory

\* the bytes a completed strip leaves for initial bytes b
Expected(b, e) == IF HasSignature(b, e) THEN Drop(b, SignatureLen(e)) ELSE b

Untouched(f) ==
    /\ calls[f] = <<>>
    /\ fs[f] = orig[f]
    /\ file_path # f
    /\ \A h \in handles : h[1] # f

StrippedIfClean(f) ==
    /\ Len(calls[f]) = 1
    /\ (calls[f][1].stage = "" /\ HasSignature(orig[f], args.encoding))
          => /\ calls[f][1].ret = "True"
             /\ fs[f] = Drop(orig[f], SignatureLen(args.encoding))

\* C4 (recursion boundary): a non-recursive walk of D never reads or writes
\* a file below a subdirectory of D, at any depth, and strips the
\* signature-prefixed files directly in D; a recursive walk strips the
\* signature-prefixed files at every depth; every nested call receives the
\* encoding and the recursive flag of the outermost one.
C4_RecursionBoundary ==
    DirectoryMode
    => /\ \A i \in 1..Len(stack) :
             /\ stack[i].encoding = args.encoding
             /\ stack[i].recursive = args.recursive
       /\ ~args.recursive
             => \A f \in Files : Parent(f) # args.directory => Untouched(f)
       /\ (pc = "done" /\ listfail = {})
             => \A f \in Files : InScope(f) => StrippedIfClean(f)

C4_Witness ==
    /\ pc = "done"
    /\ args.file = None /\ args.directory = "D" /\ ~args.recursive
    /\ args.encoding = "utf-8"
    /\ orig["D/f1"] = <<239, 187, 191, 72>>
    /\ orig["D/sub/f2"] = <<239, 187, 191, 72>>
    /\ fs["D/f1"] = <<72>>
    /\ fs["D/sub/f2"] = <<239, 187, 191, 72>>
    /\ "D/sub" \notin listed

\* C6 (failure isolation): when the walk is over the stack of calls is
\* empty and every file lying in a directory whose listing succeeded has
\* been processed, whichever files or subdirectories failed.
C6_FailureIsolation ==
    (DirectoryMode /\ pc = "done")
    => /\ stack = <<>>
       /\ \A f \in Files : Parent(f) \in listed => Len(calls[f]) >= 1
       /\ \A d \in listfail : \E i \in 1..Len(log) :
             log[i] = Msg("ERROR", "Error accessing directory", d)

C6_Witness ==
    /\ pc = "done"
    /\ args.directory = "D" /\ args.recursive
    /\ listfail = {"D/sub/deep"}
    /\ Len(calls["D/sub/f2"]) = 1
    /\ calls["D/sub/f2"][1].stage = "read"
    /\ Len(calls["D/f1"]) = 1
    /\ calls["D/f1"][1].ret = "True"
    /\ log[Len(log)].path = "D/f1"

\* main was given a --file that is no regular file or a --directory that is
\* no directory
InvalidTarget ==
    \/ args.file # None /\ args.file \notin Files
    \/ args.directory # None /\ args.directory \notin Dirs

\* C7 as claimed (validation before processing): with an invalid target
\* main touches no file and has reported an error when it terminates.
C7_ValidationReported ==
    InvalidTarget
    => /\ \A f \in Files : Untouched(f)
       /\ pc = "done" => \E i \in 1..Len(log) : log[i].level = "ERROR"

\* the bytes of f when no call is working on it
AtRest(f) == IF calls[f] = <<>> THEN orig[f] ELSE calls[f][Len(calls[f])].after

\* C8 (sequential per-file ordering): at most one file object is open, it
\* belongs to the file of the running remove_bom call, reading is over
\* before the inspection and the write-back comes after it, and outside a
\* call (between two directory entries) no file is open or half rewritten.
C8_OneFileAtATime ==
    /\ Cardinality(handles) <= 1
    /\ \A h \in handles :
          /\ h[1] = file_path
          /\ (h[2] = "rb") = (pc = "rb_read")
          /\ (h[2] = "wb") = (pc = "wb_write")
    /\ pc \in {"rb_read", "wb_write"} => handles # {}
    /\ pc \in {"inspect", "wb_open"} => content = fs[file_path]
    /\ wopened => pc \in {"wb_write", "pf_ret"}
    /\ ~InCall => file_path = ""
    /\ \A f \in Files : f # file_path => fs[f] = AtRest(f)

C8_Witness ==
    /\ pc = "wb_write"
    /\ file_path = "D/sub/f2"
    /\ handles = {<<"D/sub/f2", "wb">>}
    /\ fs["D/sub/f2"] = <<>>
    /\ Len(calls["D/f1"]) = 1
    /\ calls["D/f1"][1].ret = "True"

\* f is reached by the walk: in scope, with no failed listing on the way
Reached(f) == InScope(f) /\ Between(f) \cap listfail = {}

WalkOutcome ==
    \A f \in Files :
        /\ Len(calls[f]) = IF Reached(f) THEN 1 ELSE 0
        /\ calls[f] = <<>> => fs[f] = orig[f]
        /\ (calls[f] # <<>> /\ calls[f][1].stage = "")
              => fs[f] = Expected(orig[f], args.encoding)

\* C9 (termination, exactly once, order independence): every walk ends;
\* no file is ever processed twice; at the end each file the walk reaches
\* was processed exactly once and every other file not at all, whatever the
\* listing orders; the final bytes of a file are fixed by its initial bytes.
C9_WalkTerminatesExactlyOnce ==
    /\ <>(pc = "done")
    /\ [](DirectoryMode => \A f \in Files : Len(calls[f]) <= 1)
    /\ []((DirectoryMode /\ pc = "done") => WalkOutcome)

C9_Witness ==
    /\ pc = "done"
    /\ args.directory = "D" /\ args.recursive
    /\ listfail = {}
    /\ faults = 0
    /\ \A f \in Files : Len(calls[f]) = 1
    /\ log[Len(log)].path = "D/f1"
    /\ orig["D/f1"] = <<255, 254, 72>>
    /\ args.encoding = "utf-16le"
    /\ fs["D/f1"] = <<72>>

====
